---- MODULE Spec2Model ----
(***************************************************************************)
(* Model of the logging-subscriber crate: the process-wide LOGGING_WRITER  *)
(* (a Mutex<LoggingWriter>), the builder that installs a configuration     *)
(* into it, the tracing layer's on_event, LoggingWriter::log/format_event/ *)
(* write, BlockingWriter and the set_enabled / set_level functions.        *)
(*                                                                         *)
(* Text is a sequence of one-character strings.  A rendered line is the    *)
(* sequence of pieces appended by the write! calls of format_event, each   *)
(* piece keeping the segment it belongs to, the style applied to it and    *)
(* its text.  The bytes handed to the sink are the texts of the pieces in  *)
(* order (console emits the text alone when colours are off, which is the  *)
(* case whenever stdout is not a terminal).                                *)
(* An Option<T> is a sequence: <<>> is None and <<x>> is Some(x).          *)
(***************************************************************************)
EXTENDS Integers, Sequences, FiniteSets, TLC

\* ---------------------------------------------------------------- bounds
MaxWrites == 1

\* the producer threads
Threads == {1, 2}

\* ------------------------------------------------------------- text tools
None == <<>>
Some(x) == <<x>>
IsSome(o) == Len(o) > 0
UnwrapOr(o, d) == IF Len(o) > 0 THEN o[1] ELSE d

RECURSIVE Concat(_)
Concat(ss) == IF ss = <<>> THEN <<>> ELSE Head(ss) \o Concat(Tail(ss))

RECURSIVE Repeat(_, _)
Repeat(c, n) == IF n <= 0 THEN <<>> ELSE <<c>> \o Repeat(c, n - 1)

Digits == <<"0", "1", "2", "3", "4", "5", "6", "7", "8", "9">>

\* u32::to_string
RECURSIVE U32ToString(_)
U32ToString(n) == IF n < 10 THEN <<Digits[n + 1]>>
                  ELSE U32ToString(n \div 10) \o <<Digits[(n % 10) + 1]>>

\* format!("{: ^3}", s): s centred in a field of w, the odd blank on the right
Center(s, w) ==
    LET pad == IF Len(s) >= w THEN 0 ELSE w - Len(s)
        left == pad \div 2
    IN Repeat(" ", left) \o s \o Repeat(" ", pad - left)

\* ------------------------------------------------------------------ levels
\* tracing's LevelFilter as a log::LevelFilter (AsLog), by its discriminant
AsLog(filter) ==
    CASE filter = "OFF" -> 0
      [] filter = "ERROR" -> 1
      [] filter = "WARN" -> 2
      [] filter = "INFO" -> 3
      [] filter = "DEBUG" -> 4
      [] filter = "TRACE" -> 5

\* a tracing Level as the log::Level on_event puts in the Record
ToLogLevel(level) ==
    CASE level = "ERROR" -> 1
      [] level = "WARN" -> 2
      [] level = "INFO" -> 3
      [] level = "DEBUG" -> 4
      [] level = "TRACE" -> 5

\* the level check with the comparison turned round
LevelAllows_Inverted(filter, recLevel) == AsLog(filter) <= recLevel

\* self.level.as_log() >= record.level()
LevelAllows(filter, recLevel) == AsLog(filter) >= recLevel

\* ---------------------------------------------------------- configuration
FmtIso == <<"%", "Y", "T", "%", "H">>
FmtHms == <<"%", "H">>
FmtBad == <<"%", "Q">>

DefaultWriter ==
    [ enabled |-> TRUE,
      level |-> "DEBUG",
      default_style |-> "white",
      date_time_style |-> "dim",
      level_style_error |-> "red_bold",
      level_style_warn |-> "magenta_bold_bright",
      level_style_debug |-> "blue_bold",
      level_style_trace |-> "black_bold",
      level_style_info |-> "green_bright_bold",
      style_error |-> None,
      style_warn |-> None,
      style_info |-> None,
      style_debug |-> None,
      style_trace |-> None,
      timestamp_format |-> FmtIso,
      separator |-> <<" ">>,
      format_level |-> "Abbreviated",
      display_level |-> TRUE,
      display_time |-> TRUE,
      display_target |-> FALSE,
      display_filename |-> FALSE,
      display_line_number |-> FALSE ]

DefaultBuilder ==
    [ display_line_number |-> FALSE,
      display_level |-> TRUE,
      display_time |-> TRUE,
      display_target |-> FALSE,
      display_filename |-> FALSE,
      default_style |-> "white",
      date_time_style |-> "dim",
      level_style_error |-> "red_bold",
      level_style_warn |-> "magenta_bold_bright",
      level_style_debug |-> "blue_bold",
      level_style_trace |-> "black_bold",
      level_style_info |-> "green_bright_bold",
      style_error |-> None,
      style_warn |-> None,
      style_info |-> None,
      style_debug |-> None,
      style_trace |-> None,
      min_level |-> "DEBUG",
      separator |-> <<" ">>,
      timestamp_format |-> FmtHms,
      format_level |-> "Long" ]

with_min_level(b, value) == [b EXCEPT !.min_level = value]
with_separator(b, value) == [b EXCEPT !.separator = value]
with_timestamp_format(b, value) == [b EXCEPT !.timestamp_format = value]
with_format_level(b, value) == [b EXCEPT !.format_level = value]
with_style_error(b, value) == [b EXCEPT !.style_error = value]
with_line_number(b, value) == [b EXCEPT !.display_line_number = value]
with_level(b, value) == [b EXCEPT !.display_level = value]
with_time(b, value) == [b EXCEPT !.display_time = value]
with_target(b, value) == [b EXCEPT !.display_target = value]
with_file(b, value) == [b EXCEPT !.display_filename = value]

\* the conversion without its `logging.level = value.min_level` line
FromBuilder_DropsLevel(value) ==
    [ DefaultWriter EXCEPT
      !.default_style = value.default_style,
      !.style_error = value.style_error,
      !.style_warn = value.style_warn,
      !.style_debug = value.style_debug,
      !.style_trace = value.style_trace,
      !.style_info = value.style_info,
      !.level_style_error = value.level_style_error,
      !.level_style_warn = value.level_style_warn,
      !.level_style_debug = value.level_style_debug,
      !.level_style_trace = value.level_style_trace,
      !.level_style_info = value.level_style_info,
      !.separator = value.separator,
      !.timestamp_format = value.timestamp_format,
      !.format_level = value.format_level,
      !.display_line_number = value.display_line_number,
      !.display_level = value.display_level,
      !.display_target = value.display_target,
      !.display_filename = value.display_filename,
      !.display_time = value.display_time,
      !.date_time_style = value.date_time_style ]

\* From<LoggingSubscriberBuilder> for LoggingWriter
FromBuilder(value) ==
    [ DefaultWriter EXCEPT
      !.enabled = TRUE,
      !.level = value.min_level,
      !.default_style = value.default_style,
      !.style_error = value.style_error,
      !.style_warn = value.style_warn,
      !.style_debug = value.style_debug,
      !.style_trace = value.style_trace,
      !.style_info = value.style_info,
      !.level_style_error = value.level_style_error,
      !.level_style_warn = value.level_style_warn,
      !.level_style_debug = value.level_style_debug,
      !.level_style_trace = value.level_style_trace,
      !.level_style_info = value.level_style_info,
      !.separator = value.separator,
      !.timestamp_format = value.timestamp_format,
      !.format_level = value.format_level,
      !.display_line_number = value.display_line_number,
      !.display_level = value.display_level,
      !.display_target = value.display_target,
      !.display_filename = value.display_filename,
      !.display_time = value.display_time,
      !.date_time_style = value.date_time_style ]

\* ------------------------------------------------------------- rendering
Piece(seg, style, text) == [seg |-> seg, style |-> style, text |-> text]

\* the text of a sequence of pieces, as handed to the sink
RECURSIVE Bytes(_)
Bytes(pieces) == IF pieces = <<>> THEN <<>>
                 ELSE Head(pieces).text \o Bytes(Tail(pieces))

\* chrono::Local::now(), the fields the modelled patterns read
Now == [year |-> <<"2", "6">>, hour |-> <<"0", "9">>]

\* DelayedFormat: None when the pattern holds a directive chrono rejects
RECURSIVE Strftime(_)
Strftime(fmt) ==
    IF fmt = <<>> THEN Some(<<>>)
    ELSE IF fmt[1] # "%"
         THEN LET rest == Strftime(Tail(fmt))
              IN IF IsSome(rest) THEN Some(<<fmt[1]>> \o rest[1]) ELSE None
    ELSE IF Len(fmt) < 2 THEN None
    ELSE LET item == CASE fmt[2] = "Y" -> Some(Now.year)
                       [] fmt[2] = "H" -> Some(Now.hour)
                       [] OTHER -> None
             rest == Strftime(SubSeq(fmt, 3, Len(fmt)))
         IN IF IsSome(item) /\ IsSome(rest) THEN Some(item[1] \o rest[1]) ELSE None

\* what .format(..).to_string() can do: Some(text), or None for a panic.  A
\* rejected pattern panics in to_string(); a chrono that passes the pattern
\* through yields its text instead.
TimestampOutcomes(fmt) ==
    IF IsSome(Strftime(fmt)) THEN {Strftime(fmt)} ELSE {None, Some(fmt)}

\* the match on evt.level(): message style, label style, long and short label
LevelParts(cfg, recLevel) ==
    CASE recLevel = 1 ->
           [msg |-> UnwrapOr(cfg.style_error, cfg.default_style),
            col |-> cfg.level_style_error,
            long |-> <<"E", "R", "R", "O", "R">>, abbr |-> <<"E">>]
      [] recLevel = 2 ->
           [msg |-> UnwrapOr(cfg.style_warn, cfg.default_style),
            col |-> cfg.level_style_warn,
            long |-> <<"W", "A", "R", "N", " ">>, abbr |-> <<"W">>]
      [] recLevel = 3 ->
           [msg |-> UnwrapOr(cfg.style_info, cfg.default_style),
            col |-> cfg.level_style_info,
            long |-> <<"I", "N", "F", "O", " ">>, abbr |-> <<"I">>]
      [] recLevel = 4 ->
           [msg |-> UnwrapOr(cfg.style_debug, cfg.default_style),
            col |-> cfg.level_style_debug,
            long |-> <<"D", "E", "B", "U", "G">>, abbr |-> <<"D">>]
      [] recLevel = 5 ->
           [msg |-> UnwrapOr(cfg.style_trace, cfg.default_style),
            col |-> cfg.level_style_trace,
            long |-> <<"T", "R", "A", "C", "E">>, abbr |-> <<"T">>]

\* format_event, the timestamp segment
TimeSegment(cfg, stamp) ==
    IF cfg.display_time
    THEN << Piece("time", cfg.date_time_style, stamp),
            Piece("time", cfg.default_style, cfg.separator) >>
    ELSE <<>>

\* format_event, the level segment: the match on self.format_level
LevelSegment(cfg, rec) ==
    LET parts == LevelParts(cfg, rec.level)
    IN CASE cfg.format_level = "Abbreviated" ->
              << Piece("level", parts.col, Center(parts.abbr, 3)),
                 Piece("level", cfg.default_style, cfg.separator) >>
         [] cfg.format_level = "Long" ->
              << Piece("level", parts.col, parts.long),
                 Piece("level", cfg.default_style, cfg.separator) >>
         [] OTHER -> <<>>

\* format_event, the target and the file/line unit with its ": "
LocationSegment(cfg, rec) ==
    LET ds == cfg.default_style
        target_written == cfg.display_target
        target == IF cfg.display_target
                  THEN << Piece("target", ds, rec.target) >> ELSE <<>>
        file == IF cfg.display_filename
                THEN (IF target_written
                      THEN << Piece("separator", ds, cfg.separator) >> ELSE <<>>)
                     \o << Piece("file", ds, <<"<">>),
                           Piece("file", ds, UnwrapOr(rec.file, <<"?">>)) >>
                ELSE <<>>
        file_written1 == cfg.display_filename
        line == IF cfg.display_line_number
                THEN (IF file_written1
                      THEN << Piece("line", ds, <<":">>) >> ELSE <<>>)
                     \o << Piece("line", ds, U32ToString(UnwrapOr(rec.line, 0))),
                           Piece("line", ds, <<">">>) >>
                ELSE <<>>
        file_written == file_written1 \/ cfg.display_line_number
        line_written == cfg.display_line_number
        close == IF file_written /\ ~line_written
                 THEN << Piece("file", ds, <<">">>) >> ELSE <<>>
        colon == IF file_written \/ target_written
                 THEN << Piece("colon", ds, <<":", " ">>) >> ELSE <<>>
    IN target \o file \o line \o close \o colon

\* format_event, the message and the line terminator
MessageSegment(cfg, rec) ==
    << Piece("message", LevelParts(cfg, rec.level).msg, rec.args \o <<"\n">>) >>

\* LoggingWriter::format_event with the timestamp text already produced
format_event(cfg, rec, stamp) ==
    TimeSegment(cfg, stamp) \o LevelSegment(cfg, rec)
        \o LocationSegment(cfg, rec) \o MessageSegment(cfg, rec)

\* ------------------------------------------------------------------ inputs
\* a tracing Event: level, target, file path (components), line, and the
\* fields in the order the callsite defines them
Events ==
    { [level |-> "ERROR", target |-> <<"m">>,
       file |-> Some(<< <<"s">>, <<"f">> >>), line |-> Some(42),
       fields |-> << [name |-> "message", value |-> <<"h">>] >>],
      [level |-> "DEBUG", target |-> <<"m">>,
       file |-> None, line |-> None,
       fields |-> << [name |-> "message", value |-> <<"a">>],
                     [name |-> "k", value |-> <<"1">>] >>] }

\* the builder chains the embedder runs before build()
Drafts ==
    { DefaultBuilder,
      with_line_number(with_level(with_min_level(DefaultBuilder, "INFO"), FALSE), TRUE),
      with_timestamp_format(DefaultBuilder, FmtBad) }

\* the arguments of set_level
Filters == {"OFF"}

\* the buffers handed to BlockingWriter::write
Buffers == { <<"x", "\n">> }

\* ------------------------------------------------------------------- state
VARIABLES
    cfg,       \* the LoggingWriter inside LOGGING_WRITER
    lock,      \* the thread holding the mutex, 0 when free
    poisoned,  \* the mutex's poison flag
    pc,        \* each thread's position
    ev,        \* Option: the event a thread's on_event is handling
    dr,        \* Option: the builder a thread's build() consumes
    buf,       \* the pieces format_event has appended so far
    ret,       \* the io::Result<usize> of the finished log / write call
    sink,      \* stdout: the bytes accepted by each write call, in order
    revived    \* the live configuration replaced a disabled one on build()

vars == <<cfg, lock, poisoned, pc, ev, dr, buf, ret, sink, revived>>

Init ==
    /\ cfg = DefaultWriter
    /\ lock = 0
    /\ poisoned = FALSE
    /\ pc = [t \in Threads |-> "idle"]
    /\ ev = [t \in Threads |-> None]
    /\ dr = [t \in Threads |-> None]
    /\ buf = [t \in Threads |-> <<>>]
    /\ ret = [t \in Threads |-> 0]
    /\ sink = <<>>
    /\ revived = FALSE

\* ----------------------------------------------------------------- helpers
\* Mutex::lock can return: nobody holds the mutex
CanLock(t) == lock = 0

\* a build() that writes the configuration without waiting for the mutex
BuildCanLock_Always(t) == TRUE

\* build()'s lock(): nobody holds the mutex
BuildCanLock(t) == lock = 0

\* the byte counts io::stdout().write may report for a buffer of n bytes:
\* all of it, or fewer (the short write kept here takes the first byte)
Accepted(n) == {k \in 1..n : k = n \/ k = 1}

\* ToStringVisitor: the HashMap the record_* methods fill
Visit(fields) ==
    [n \in {fields[i].name : i \in 1..Len(fields)} |->
        LET last == CHOOSE i \in 1..Len(fields) :
                        /\ fields[i].name = n
                        /\ \A j \in 1..Len(fields) : fields[j].name = n => j <= i
        IN fields[last].value]

\* the orders in which HashMap::iter may yield the keys
IterOrders(map) ==
    LET keys == DOMAIN map
        n == Cardinality(keys)
    IN {o \in [1..n -> keys] : \A i, j \in 1..n : o[i] = o[j] => i = j}

\* Display for ToStringVisitor, for one iteration order
Display(map, order) == Concat([i \in 1..Len(order) |-> map[order[i]]])

\* buf.file_name() of the event's file
FileName(file) ==
    IF ~IsSome(file) THEN None
    ELSE IF file[1] = <<>> THEN None
    ELSE IF file[1][Len(file[1])] = <<".", ".">> THEN None
    ELSE Some(file[1][Len(file[1])])

\* the log::Record on_event builds
MakeRecord(event, args) ==
    [level |-> ToLogLevel(event.level),
     target |-> event.target,
     file |-> FileName(event.file),
     line |-> event.line,
     args |-> args]

\* ---------------------------------------------------------------- on_event
\* on_event is entered: the visitor has recorded the event's fields
OnEvent(t, e) ==
    /\ pc[t] = "idle"
    /\ Len(sink) < MaxWrites
    /\ pc' = [pc EXCEPT ![t] = "lock"]
    /\ ev' = [ev EXCEPT ![t] = Some(e)]
    /\ UNCHANGED <<cfg, lock, poisoned, dr, buf, ret, sink, revived>>

\* LOGGING_WRITER.lock().unwrap(): a poisoned mutex makes unwrap panic
Lock(t) ==
    /\ pc[t] = "lock"
    /\ CanLock(t)
    /\ IF poisoned
       THEN /\ pc' = [pc EXCEPT ![t] = "panic_poisoned"]
            /\ ev' = [ev EXCEPT ![t] = None]
            /\ UNCHANGED lock
       ELSE /\ pc' = [pc EXCEPT ![t] = "log"]
            /\ lock' = t
            /\ UNCHANGED ev
    /\ UNCHANGED <<cfg, poisoned, dr, buf, ret, sink, revived>>

\* LoggingWriter::log: the level check; a refused event returns Ok(0)
Log(t) ==
    /\ pc[t] = "log"
    /\ IF LevelAllows(cfg.level, ToLogLevel(ev[t][1].level))
       THEN /\ pc' = [pc EXCEPT ![t] = "format"]
            /\ UNCHANGED <<lock, ret>>
       ELSE /\ pc' = [pc EXCEPT ![t] = "done"]
            /\ ret' = [ret EXCEPT ![t] = 0]
            /\ lock' = 0
    /\ UNCHANGED <<cfg, poisoned, ev, dr, buf, sink, revived>>

\* format_event up to the level segment; a panic of to_string() unwinds
\* through the guard, which poisons the mutex and releases it
FormatHead(t) ==
    /\ pc[t] = "format"
    /\ LET rec == MakeRecord(ev[t][1], <<>>)
       IN \E stamp \in (IF cfg.display_time
                         THEN TimestampOutcomes(cfg.timestamp_format)
                         ELSE {Some(<<>>)}) :
            IF IsSome(stamp)
            THEN /\ buf' = [buf EXCEPT ![t] =
                               TimeSegment(cfg, stamp[1]) \o LevelSegment(cfg, rec)]
                 /\ pc' = [pc EXCEPT ![t] = "format_rest"]
                 /\ UNCHANGED <<lock, poisoned>>
            ELSE /\ pc' = [pc EXCEPT ![t] = "panic_format"]
                 /\ poisoned' = TRUE
                 /\ lock' = 0
                 /\ UNCHANGED buf
    /\ UNCHANGED <<cfg, ev, dr, ret, sink, revived>>

\* format_event from the target to the message: evt.args() runs the
\* visitor's Display, which walks the HashMap
FormatRest(t) ==
    /\ pc[t] = "format_rest"
    /\ \E order \in IterOrders(Visit(ev[t][1].fields)) :
         LET rec == MakeRecord(ev[t][1], Display(Visit(ev[t][1].fields), order))
         IN buf' = [buf EXCEPT ![t] =
                       buf[t] \o LocationSegment(cfg, rec) \o MessageSegment(cfg, rec)]
    /\ pc' = [pc EXCEPT ![t] = "write"]
    /\ UNCHANGED <<cfg, lock, poisoned, ev, dr, ret, sink, revived>>

\* Write for LoggingWriter, one io::stdout().write(buf); the rendered
\* String and the guard are dropped when log returns
Write(t) ==
    /\ pc[t] = "write"
    /\ IF cfg.enabled
       THEN \E n \in Accepted(Len(Bytes(buf[t]))) :
              /\ sink' = Append(sink, SubSeq(Bytes(buf[t]), 1, n))
              /\ ret' = [ret EXCEPT ![t] = n]
       ELSE /\ ret' = [ret EXCEPT ![t] = 0]
            /\ UNCHANGED sink
    /\ lock' = 0
    /\ pc' = [pc EXCEPT ![t] = "done"]
    /\ buf' = [buf EXCEPT ![t] = <<>>]
    /\ UNCHANGED <<cfg, poisoned, ev, dr, revived>>

\* the call returns to the producer
Return(t) ==
    /\ pc[t] \in {"done", "err"}
    /\ pc' = [pc EXCEPT ![t] = "idle"]
    /\ ev' = [ev EXCEPT ![t] = None]
    /\ buf' = [buf EXCEPT ![t] = <<>>]
    /\ ret' = [ret EXCEPT ![t] = 0]
    /\ UNCHANGED <<cfg, lock, poisoned, dr, sink, revived>>

\* ------------------------------------------------------------------- build
\* build(self) is called with a finished builder
BuildStart(t, d) ==
    /\ pc[t] = "idle"
    /\ pc' = [pc EXCEPT ![t] = "build"]
    /\ dr' = [dr EXCEPT ![t] = Some(d)]
    /\ UNCHANGED <<cfg, lock, poisoned, ev, buf, ret, sink, revived>>

\* if let Ok(mut item) = LOGGING_WRITER.lock() { *item = self.into(); }
\* and the layer is returned either way
BuildSwap(t) ==
    /\ pc[t] = "build"
    /\ BuildCanLock(t)
    /\ IF poisoned
       THEN UNCHANGED <<cfg, revived>>
       ELSE /\ cfg' = FromBuilder(dr[t][1])
            /\ revived' = ~cfg.enabled
    /\ pc' = [pc EXCEPT ![t] = "idle"]
    /\ dr' = [dr EXCEPT ![t] = None]
    /\ UNCHANGED <<lock, poisoned, ev, buf, ret, sink>>

\* ---------------------------------------------------- set_enabled, set_level
set_enabled(t, value) ==
    /\ pc[t] = "idle"
    /\ CanLock(t)
    /\ IF poisoned
       THEN /\ pc' = [pc EXCEPT ![t] = "err"]
            /\ UNCHANGED <<cfg, revived>>
       ELSE /\ UNCHANGED pc
            /\ cfg' = [cfg EXCEPT !.enabled = value]
            /\ revived' = FALSE
    /\ UNCHANGED <<lock, poisoned, ev, dr, buf, ret, sink>>

set_level(t, value) ==
    /\ pc[t] = "idle"
    /\ CanLock(t)
    /\ IF poisoned
       THEN /\ pc' = [pc EXCEPT ![t] = "err"]
            /\ UNCHANGED cfg
       ELSE /\ UNCHANGED pc
            /\ cfg' = [cfg EXCEPT !.level = value]
    /\ UNCHANGED <<lock, poisoned, ev, dr, buf, ret, sink, revived>>

\* ---------------------------------------------------------- BlockingWriter
\* Write::write for BlockingWriter
BlockingWrite(t, b) ==
    /\ pc[t] = "idle"
    /\ CanLock(t)
    /\ Len(sink) < MaxWrites
    /\ IF poisoned
       THEN /\ pc' = [pc EXCEPT ![t] = "panic_poisoned"]
            /\ UNCHANGED <<ret, sink>>
       ELSE /\ pc' = [pc EXCEPT ![t] = "done"]
            /\ IF cfg.enabled
               THEN \E n \in Accepted(Len(b)) :
                      /\ sink' = Append(sink, SubSeq(b, 1, n))
                      /\ ret' = [ret EXCEPT ![t] = n]
               ELSE /\ ret' = [ret EXCEPT ![t] = 0]
                    /\ UNCHANGED sink
    /\ UNCHANGED <<cfg, lock, poisoned, ev, dr, buf, revived>>

\* Write::flush for BlockingWriter
BlockingFlush(t) ==
    /\ pc[t] = "idle"
    /\ CanLock(t)
    /\ pc' = [pc EXCEPT ![t] = IF poisoned THEN "panic_poisoned" ELSE "idle"]
    /\ UNCHANGED <<cfg, lock, poisoned, ev, dr, buf, ret, sink, revived>>

\* ----------------------------------------------------------- specification
Next ==
    \E t \in Threads :
        \/ \E e \in Events : OnEvent(t, e)
        \/ Lock(t)
        \/ Log(t)
        \/ FormatHead(t)
        \/ FormatRest(t)
        \/ Write(t)
        \/ Return(t)
        \/ \E d \in Drafts : BuildStart(t, d)
        \/ BuildSwap(t)
        \/ \E v \in BOOLEAN : set_enabled(t, v)
        \/ \E f \in Filters : set_level(t, f)
        \/ \E b \in Buffers : BlockingWrite(t, b)
        \/ BlockingFlush(t)

Spec == Init /\ [][Next]_vars

\* ----------------------------------------------------- claims: definitions
\* the threads inside LoggingWriter::log, holding the guard
InLog(t) == pc[t] \in {"log", "format", "format_rest", "write"}

\* Severity, Error the most severe
Severity(level) ==
    CASE level = "ERROR" -> 5
      [] level = "WARN" -> 4
      [] level = "INFO" -> 3
      [] level = "DEBUG" -> 2
      [] level = "TRACE" -> 1

\* the least severity a minimum level lets through; OFF lets nothing through
MinSeverity(filter) == IF filter = "OFF" THEN 6 ELSE Severity(filter)

\* the event is to be dropped under configuration c
Dropped(c, e) == ~c.enabled \/ Severity(e.level) < MinSeverity(c.level)

\* every line configuration c can render for event e
Renderings(c, e) ==
    { format_event(c, MakeRecord(e, Display(Visit(e.fields), o)), s[1]) :
        o \in IterOrders(Visit(e.fields)),
        s \in {x \in TimestampOutcomes(c.timestamp_format) : IsSome(x)} }

\* the configurations build() can install, and the initial one
Installable == {DefaultWriter} \cup {FromBuilder(d) : d \in Drafts}

C4_RenderFromOneConfig ==
    \A t \in Threads :
        pc[t] = "write" =>
            \E c \in Installable : buf[t] \in Renderings(c, ev[t][1])

C4_Witness ==
    \E t, u \in Threads :
        /\ pc[t] = "write" /\ pc[u] = "build"
        /\ buf[t] \notin Renderings(FromBuilder(dr[u][1]), ev[t][1])

MutualExclusion == Cardinality({t \in Threads : InLog(t)}) <= 1

\* every line some installable configuration renders for some event, as
\* bytes, and the buffers given to BlockingWriter
AllLines ==
    UNION { { Bytes(l) : l \in Renderings(c, e) } : c \in Installable, e \in Events }
        \cup Buffers

\* bytes is a concatenation of whole lines
RECURSIVE IsWholeLines(_)
IsWholeLines(bytes) ==
    \/ bytes = <<>>
    \/ \E l \in AllLines :
          /\ Len(l) <= Len(bytes)
          /\ SubSeq(bytes, 1, Len(l)) = l
          /\ IsWholeLines(SubSeq(bytes, Len(l) + 1, Len(bytes)))

\* the pieces of a line that belong to one of the segments
Segment(line, segs) == SelectSeq(line, LAMBDA p : p.seg \in segs)

\* C2: an event that passes the level check of an enabled sink is written as
\* one whole newline-terminated line in a single write, and the call returns
\* the length of that line.
C2_OneWholeLineWritten ==
    [][\A t \in Threads :
          (pc[t] = "write" /\ pc'[t] = "done" /\ cfg.enabled)
              => LET line == Bytes(buf[t])
                 IN /\ line[Len(line)] = "\n"
                    /\ sink' = Append(sink, line)
                    /\ ret'[t] = Len(line)]_vars

\* C3: one thread at a time renders and writes, and the sink's content is a
\* concatenation of whole rendered lines.
C3_SinkIsWholeLines == MutualExclusion /\ IsWholeLines(Concat(sink))

\* c is the field-by-field conversion of draft d
Converted(c, d) ==
    /\ c.enabled
    /\ c.level = d.min_level
    /\ c.default_style = d.default_style
    /\ c.date_time_style = d.date_time_style
    /\ c.level_style_error = d.level_style_error
    /\ c.level_style_warn = d.level_style_warn
    /\ c.level_style_debug = d.level_style_debug
    /\ c.level_style_trace = d.level_style_trace
    /\ c.level_style_info = d.level_style_info
    /\ c.style_error = d.style_error
    /\ c.style_warn = d.style_warn
    /\ c.style_info = d.style_info
    /\ c.style_debug = d.style_debug
    /\ c.style_trace = d.style_trace
    /\ c.separator = d.separator
    /\ c.timestamp_format = d.timestamp_format
    /\ c.format_level = d.format_level
    /\ c.display_line_number = d.display_line_number
    /\ c.display_level = d.display_level
    /\ c.display_time = d.display_time
    /\ c.display_target = d.display_target
    /\ c.display_filename = d.display_filename

\* C5: when a build() returns, the live configuration is the conversion of
\* the draft it was given.
C5_LastBuildWins ==
    [][\A t \in Threads :
          (pc[t] = "build" /\ pc'[t] = "idle") => Converted(cfg', dr[t][1])]_vars

\* C6: on a poisoned lock the render path skips the event and returns; no
\* producer is taken down by it.
C6_PoisonedLockSkipsEvent == \A t \in Threads : pc[t] # "panic_poisoned"

\* C7: a rendered line has the level segment exactly when display_level is
\* set and the level-label mode is not None.
C7_LevelSegmentIffDisplayLevel ==
    \A t \in Threads :
        pc[t] = "write" =>
            (Segment(buf[t], {"level"}) # <<>>
                <=> (cfg.display_level /\ cfg.format_level # "None"))

\* C8: the file/line unit is absent with neither flag, "<" file ">" with the
\* filename alone, and opens with "<" and closes with ">" whenever the line
\* number is shown.
C8_BracketedFileLineUnit ==
    \A t \in Threads :
        pc[t] = "write" =>
            LET unit == Bytes(Segment(buf[t], {"file", "line"}))
                rec == MakeRecord(ev[t][1], <<>>)
            IN CASE ~cfg.display_filename /\ ~cfg.display_line_number ->
                      unit = <<>>
                 [] cfg.display_filename /\ ~cfg.display_line_number ->
                      unit = <<"<">> \o UnwrapOr(rec.file, <<"?">>) \o <<">">>
                 [] OTHER ->
                      unit[1] = "<" /\ unit[Len(unit)] = ">"

\* C9: the message is the event's field values in field-definition order.
C9_FieldsInDefinitionOrder ==
    \A t \in Threads :
        pc[t] = "write" =>
            LET fields == ev[t][1].fields
            IN Bytes(Segment(buf[t], {"message"}))
                 = Concat([i \in 1..Len(fields) |-> fields[i].value]) \o <<"\n">>

====
